---- MODULE Spec2Model ----
(***************************************************************************)
(* A model of src/lib/webrtc/call.js: the MatrixCall state machine and its *)
(* ICE candidate sender.                                                    *)
(*                                                                          *)
(* The value of a variable is a record holding one MatrixCall object       *)
(* together with the ports it talks to: the callbacks the media stack      *)
(* (opts.webRtc) still owes it, the events it handed to the client, its    *)
(* pending setTimeout callbacks and its event listeners.  Every function   *)
(* of call.js is an operator from such a record to the record after the    *)
(* function has run (JavaScript runs each handler to completion on one     *)
(* event loop), and every action applies one handler to the whole record.  *)
(***************************************************************************)
EXTENDS Naturals, Sequences, FiniteSets, Bags, TLC

VARIABLES call, newCall, ops

vars == <<call, newCall, ops>>

(***************************************************************************)
(* Bounds of the model.                                                     *)
(***************************************************************************)
\* invocations by the application and by MatrixClient, and unrequested events
\* of the media stack, in one behaviour
MaxOps == 3
\* local ICE candidates the peer connection emits
MaxCands == 3
\* getUserMedia requests made for one call
MaxGum == 2
\* RTCPeerConnection objects constructed for one call
MaxPc == 2
\* "onHangup" emissions counted
MaxEmits == 2
\* close() invocations counted on the peer connection
MaxClose == 2
\* pending remote-video play timers
MaxPlay == 1
\* unanswered createOffer, createAnswer or setLocalDescription requests of a kind
MaxPending == 2
\* entries of the opts.turnServers given to the constructor
MaxServers == 3

(***************************************************************************)
(* Program constants.                                                       *)
(***************************************************************************)
CALL_TIMEOUT_MS == 60000
\* delay of the timer sendCandidate arms
CandidateCoalesceMs == 100
\* base of the retry delay in _sendCandidateQueue
RetryBaseMs == 500
\* the give-up test in _sendCandidateQueue: candidateSendTries > 5
MaxSendTries == 5

FALLBACK_STUN_SERVER == "stun:stun.l.google.com:19302"

\* JavaScript undefined, as the value of a field nothing has assigned
Undefined == "undefined"

States ==
    {"fledgling", "ringing", "wait_local_media", "create_offer", "create_answer",
     "invite_sent", "connecting", "connected", "ended"}

IceStates == {"checking", "connected", "completed", "failed", "disconnected"}

\* an entry of opts.turnServers: an object that has a urls key or lacks it
ServerConfigs ==
    {[hasUrls |-> TRUE, urls |-> u, credential |-> c] :
        u \in {<<"turn:a">>, <<"turn:b">>, <<"turn:a", "turn:b">>}, c \in BOOLEAN}
    \cup {[hasUrls |-> FALSE, urls |-> <<>>, credential |-> TRUE]}

\* the entry the constructor falls back to
FallbackServers ==
    << [hasUrls |-> TRUE, urls |-> <<FALLBACK_STUN_SERVER>>, credential |-> FALSE] >>

(***************************************************************************)
(* The MatrixCall constructor.  The first group of fields are the fields   *)
(* of the object; the others are the ports' view of this call.             *)
(***************************************************************************)
MatrixCall ==
    [ \* fields of the object
      state |-> "fledgling",
      didConnect |-> FALSE,
      candidateSendQueue |-> <<>>,
      candidateSendTries |-> 0,
      turnServers |-> FallbackServers, \* opts.turnServers was left out
      direction |-> Undefined,
      type |-> Undefined,
      hangupParty |-> Undefined,
      hangupReason |-> Undefined,
      localAVStream |-> 0,            \* 0: no stream; n > 0: the n-th captured stream
      remoteAVStream |-> FALSE,
      waitForLocalAVStream |-> FALSE,
      successor |-> FALSE,
      peerConn |-> FALSE,             \* whether this.peerConn holds a connection
      remoteVideoElement |-> FALSE,
      \* opts.webRtc: requests the media stack has not answered yet
      gumForInvite |-> 0,             \* getUserMedia(.., _gotUserMediaForInvite, _getUserMediaFailed)
      gumForAnswer |-> 0,             \* getUserMedia(.., _gotUserMediaForAnswer, undefined)
      gumRequests |-> 0,
      streamsDelivered |-> 0,
      createOfferPending |-> 0,
      setLocalOfferPending |-> 0,
      createAnswerPending |-> 0,
      setLocalAnswerPending |-> 0,
      signalingState |-> "stable",    \* of this.peerConn, once there is one
      pcCreated |-> 0,
      pcCloseCalls |-> 0,
      stopRequested |-> {},           \* local streams stop() was requested on
      remoteStopRequested |-> FALSE,
      \* opts.client
      callListed |-> FALSE,           \* client.callList[callId] = this
      sentEvents |-> {},              \* <<event type, reason>> handed to client.sendEvent
      inFlight |-> <<>>,              \* m.call.candidates batches whose promise is unsettled
      published |-> <<>>,             \* m.call.candidates batches whose promise resolved
      \* setTimeout callbacks not yet run
      flushTimers |-> EmptyBag,       \* delays of pending _sendCandidateQueue timers
      ringTimers |-> 0,
      inviteTimers |-> 0,
      playTimers |-> 0,
      \* EventEmitter
      errorListener |-> FALSE,
      hangupEmits |-> 0,
      errorsEmitted |-> {},
      replacedEmits |-> 0,
      \* an exception is propagating out of the running handler
      exc |-> FALSE,
      \* what an observer has seen so far
      placeRefused |-> FALSE,         \* checkForErrorListener has thrown
      nextCand |-> 1,                 \* candidates are numbered in emission order
      runClean |-> TRUE,              \* the failure run began at tries = 0, one publish at a time
      runFails |-> 0,                 \* consecutive publish failures of the run
      runDelays |-> <<>>,             \* the retry delays the run scheduled
      gaveUpAt |-> 0,                 \* the failure of the run at which the sender gave up
      exhausted |-> FALSE,            \* the sender gave up and has not published since
      failStreak |-> 0,               \* publishes that failed since the last one that succeeded
      publishStates |-> {} ]          \* the call states in which a candidates publish was started

Throw(w) == [w EXCEPT !.exc = TRUE]

\* utils.checkObjectHasKeys(server, ["urls"]): throws when the key is missing
checkObjectHasKeys_urls(server) == server.hasUrls

\* opts.turnServers || [{urls: [FALLBACK_STUN_SERVER]}]: a list, empty or
\* not, is truthy; hasTurnServers says whether the option was supplied
turnServersOrFallback(opts) ==
    IF opts.hasTurnServers THEN opts.turnServers ELSE FallbackServers

\* new MatrixCall(opts) where w is the call the caller held before: a
\* constructor that throws yields no object
newMatrixCall(w, opts) ==
    LET turnServers == turnServersOrFallback(opts)
    IN  IF \A i \in 1..Len(turnServers) : checkObjectHasKeys_urls(turnServers[i])
        THEN [MatrixCall EXCEPT !.turnServers = turnServers]
        ELSE Throw(w)

(***************************************************************************)
(* client.sendEvent for the events whose promise the call ignores.         *)
(***************************************************************************)
sendEvent(w, eventType, reason) ==
    [w EXCEPT !.sentEvents = @ \cup {<<eventType, reason>>}]

(***************************************************************************)
(* Bookkeeping of what an observer of the candidate sender has seen: the   *)
(* run of consecutive publish failures in progress.  A run is clean when   *)
(* it began at candidateSendTries = 0 and no publish of it was started     *)
(* while another was unsettled.  None of this is read by the program.      *)
(***************************************************************************)
\* a publish is about to start
noteFlush(w) ==
    LET w1 == [w EXCEPT !.publishStates = @ \cup {w.state}]
    IN  IF Len(w1.inFlight) > 0
        THEN [w1 EXCEPT !.runClean = FALSE]
        ELSE IF w1.candidateSendTries = 0
             THEN [w1 EXCEPT !.runClean = TRUE, !.runFails = 0, !.runDelays = <<>>,
                             !.gaveUpAt = 0]
             ELSE w1

noteSuccess(w) ==
    [w EXCEPT !.runFails = 0, !.runDelays = <<>>, !.exhausted = FALSE,
              !.failStreak = 0]

noteRetry(w, delayMs) ==
    [w EXCEPT !.runFails = @ + 1, !.runDelays = Append(@, delayMs),
              !.failStreak = @ + 1]

noteGiveUp(w) ==
    [w EXCEPT !.gaveUpAt = w.runFails + 1, !.runFails = 0, !.exhausted = TRUE,
              !.failStreak = @ + 1]

(***************************************************************************)
(* The candidate sender.                                                    *)
(***************************************************************************)
\* setTimeout(function() { _sendCandidateQueue(self); }, delayMs)
setFlushTimer(w, delayMs) ==
    [w EXCEPT !.flushTimers = @ (+) SetToBag({delayMs})]

\* the head of _sendCandidateQueue: drain the queue, count the try and hand
\* the batch to client.sendEvent; the two callbacks of its promise are
\* publishSucceeded and publishFailed
_sendCandidateQueue(w) ==
    IF Len(w.candidateSendQueue) = 0
    THEN w
    ELSE [noteFlush(w) EXCEPT !.inFlight = Append(@, w.candidateSendQueue),
                              !.candidateSendQueue = <<>>,
                              !.candidateSendTries = @ + 1]

sendCandidate(w, content) ==
    LET w1 == [w EXCEPT !.candidateSendQueue = Append(@, content)]
    IN  IF w1.candidateSendTries = 0
        THEN setFlushTimer(w1, CandidateCoalesceMs)
        ELSE w1

\* event.candidate is the next candidate the connection found; an event
\* without a candidate (end of gathering) changes nothing
_gotLocalIceCandidate(w) ==
    [sendCandidate(w, w.nextCand) EXCEPT !.nextCand = @ + 1]

RemoveAt(s, i) == SubSeq(s, 1, i - 1) \o SubSeq(s, i + 1, Len(s))

\* a success callback that leaves the count of tries as it is
publishSucceeded_TriesKept(w, i) ==
    LET w1 == [noteSuccess(w) EXCEPT !.inFlight = RemoveAt(@, i),
                                     !.published = Append(@, w.inFlight[i])]
    IN  _sendCandidateQueue(w1)

\* the success callback of the publish of the i-th unsettled batch
publishSucceeded(w, i) ==
    LET w1 == [noteSuccess(w) EXCEPT !.inFlight = RemoveAt(@, i),
                                     !.published = Append(@, w.inFlight[i]),
                                     !.candidateSendTries = 0]
    IN  _sendCandidateQueue(w1)

\* a failure callback that forgets the batch
requeue_Forgotten(queue, cands) == queue

\* the queue after the failure callback has pushed the batch back
requeue(queue, cands) == queue \o cands

\* a failure callback that counts the retry and arms no timer for it
publishFailed_NoRetryTimer(w, i) ==
    LET w1 == [w EXCEPT !.inFlight = RemoveAt(@, i),
                        !.candidateSendQueue = requeue(@, w.inFlight[i])]
        delayMs == RetryBaseMs * (2 ^ w1.candidateSendTries)
    IN  IF w1.candidateSendTries > MaxSendTries
        THEN [noteGiveUp(w1) EXCEPT !.candidateSendTries = 0]
        ELSE [noteRetry(w1, delayMs) EXCEPT !.candidateSendTries = @ + 1]

\* the failure callback of the publish of the i-th unsettled batch
publishFailed(w, i) ==
    LET w1 == [w EXCEPT !.inFlight = RemoveAt(@, i),
                        !.candidateSendQueue = requeue(@, w.inFlight[i])]
        delayMs == RetryBaseMs * (2 ^ w1.candidateSendTries)
    IN  IF w1.candidateSendTries > MaxSendTries
        THEN [noteGiveUp(w1) EXCEPT !.candidateSendTries = 0]
        ELSE [setFlushTimer(noteRetry(w1, delayMs), delayMs) EXCEPT
                        !.candidateSendTries = @ + 1]

\* a pending flush timer with this delay runs its callback
flushTimerFired(w, delayMs) ==
    _sendCandidateQueue([w EXCEPT !.flushTimers = @ (-) SetToBag({delayMs})])

(***************************************************************************)
(* EventEmitter (utils.inherits(MatrixCall, EventEmitter)).  Node's emit   *)
(* throws when "error" is emitted and nothing listens for it.              *)
(***************************************************************************)
on_error(w) == [w EXCEPT !.errorListener = TRUE]

removeListener_error(w) == [w EXCEPT !.errorListener = FALSE]

emit_error(w, code) ==
    IF w.errorListener
    THEN [w EXCEPT !.errorsEmitted = @ \cup {code}]
    ELSE Throw(w)

emit_onHangup(w) == [w EXCEPT !.hangupEmits = @ + 1]

emit_replaced(w) == [w EXCEPT !.replacedEmits = @ + 1]

checkForErrorListener(w) ==
    IF ~w.errorListener
    THEN [Throw(w) EXCEPT !.placeRefused = TRUE]
    ELSE w

(***************************************************************************)
(* The media stack.  A method invoked on a missing peer connection is a    *)
(* TypeError.  What a closed connection does with a method call is the     *)
(* stack's choice: strict stacks throw InvalidStateError, lenient ones     *)
(* accept the call; strict is an input of the handlers that can meet one.  *)
(***************************************************************************)
pcRefuses(w, strict) ==
    ~w.peerConn \/ (strict /\ w.signalingState = "closed")

_createPeerConnection(w) ==
    [w EXCEPT !.peerConn = TRUE, !.signalingState = "stable", !.pcCreated = @ + 1]

pcClose(w) ==
    [w EXCEPT !.signalingState = "closed", !.pcCloseCalls = @ + 1]

getUserMediaForInvite(w) ==
    [w EXCEPT !.gumForInvite = @ + 1, !.gumRequests = @ + 1]

getUserMediaForAnswer(w) ==
    [w EXCEPT !.gumForAnswer = @ + 1, !.gumRequests = @ + 1]

stopAllMedia(w) ==
    LET w1 == IF w.localAVStream # 0
              THEN [w EXCEPT !.stopRequested = @ \cup {w.localAVStream}]
              ELSE w
    IN  IF w1.remoteAVStream
        THEN [w1 EXCEPT !.remoteStopRequested = TRUE]
        ELSE w1

_tryPlayRemoteStream(w) ==
    IF w.remoteVideoElement /\ w.remoteAVStream
    THEN [w EXCEPT !.playTimers = @ + 1]
    ELSE w

(***************************************************************************)
(* Termination.                                                             *)
(***************************************************************************)
terminate(w, hangupParty, hangupReason, shouldEmit) ==
    LET w1 == [w EXCEPT !.state = "ended",
                        !.hangupParty = hangupParty,
                        !.hangupReason = hangupReason]
        w2 == stopAllMedia(w1)
        w3 == IF w2.peerConn /\ (hangupParty = "local" \/ w2.signalingState # "closed")
              THEN pcClose(w2)
              ELSE w2
    IN  IF shouldEmit THEN emit_onHangup(w3) ELSE w3

\* hangup(reason, suppressEvent); a parameter the caller leaves out is
\* undefined, which suppressEvent = FALSE stands for (!undefined is true)
hangup(w, reason, suppressEvent) ==
    sendEvent(terminate(w, "local", reason, ~suppressEvent), "m.call.hangup", reason)

_onHangupReceived(w, reason) == terminate(w, "remote", reason, TRUE)

_onAnsweredElsewhere(w) == terminate(w, "remote", "answered_elsewhere", TRUE)

_onRemoteStreamEnded(w) ==
    LET w1 == stopAllMedia([w EXCEPT !.state = "ended", !.hangupParty = "remote"])
        w2 == IF w1.signalingState # "closed" THEN pcClose(w1) ELSE w1
    IN  emit_onHangup(w2)

_onRemoteStreamStarted(w) == [w EXCEPT !.state = "connected"]

_onRemoteStreamTrackStarted(w) == [w EXCEPT !.state = "connected"]

\* the callback _initWithInvite hands to setTimeout
ringTimeout(w) ==
    IF w.state = "ringing"
    THEN LET w1 == stopAllMedia([w EXCEPT !.state = "ended", !.hangupParty = "remote"])
             w2 == IF w1.signalingState # "closed" THEN pcClose(w1) ELSE w1
         IN  emit_onHangup(w2)
    ELSE w

\* an invite timer that does not look at the state
inviteTimeout_Unguarded(w) == hangup(w, "invite_timeout", FALSE)

\* the callback _gotLocalOffer hands to setTimeout
inviteTimeout(w) ==
    IF w.state = "invite_sent"
    THEN hangup(w, "invite_timeout", FALSE)
    ELSE w

\* the callback _tryPlayRemoteStream hands to setTimeout; isOpenWebRTC is
\* what self.webRtc.isOpenWebRTC() answers when the callback asks
playTimeout(w, isOpenWebRTC) ==
    IF ~w.remoteVideoElement
    THEN Throw(w)
    ELSE IF isOpenWebRTC THEN [w EXCEPT !.state = "connected"] ELSE w

(***************************************************************************)
(* Placing and receiving a call.                                            *)
(***************************************************************************)
_placeCallWithConstraints(w) ==
    [getUserMediaForInvite([w EXCEPT !.callListed = TRUE]) EXCEPT
        !.state = "wait_local_media",
        !.direction = "outbound"]

\* a placeVoiceCall that looks for the error listener after it has started
placeVoiceCall_CheckedLate(w) ==
    checkForErrorListener([_placeCallWithConstraints(w) EXCEPT !.type = "voice"])

placeVoiceCall(w) ==
    LET w1 == checkForErrorListener(w)
    IN  IF w1.exc THEN w1
        ELSE [_placeCallWithConstraints(w1) EXCEPT !.type = "voice"]

placeVideoCall(w, remoteVideoElement) ==
    LET w1 == checkForErrorListener(w)
    IN  IF w1.exc THEN w1
        ELSE LET w2 == [w1 EXCEPT !.remoteVideoElement = remoteVideoElement]
                 w3 == [_placeCallWithConstraints(w2) EXCEPT !.type = "video"]
             IN  _tryPlayRemoteStream(w3)

setRemoteVideoElement(w, element) ==
    _tryPlayRemoteStream([w EXCEPT !.remoteVideoElement = element])

\* offersVideo: the offered SDP has an m=video section; aged: event.getAge()
\* is a number other than 0
_initWithInvite(w, offersVideo, aged) ==
    LET w1 == [_createPeerConnection(w) EXCEPT
                   !.state = "ringing",
                   !.direction = "inbound",
                   !.type = IF offersVideo THEN "video" ELSE "voice"]
    IN  IF aged THEN [w1 EXCEPT !.ringTimers = @ + 1] ELSE w1

_initWithHangup(w) == [w EXCEPT !.state = "ended"]

_receivedAnswer(w, strict) ==
    IF w.state = "ended" THEN w
    ELSE IF pcRefuses(w, strict) THEN Throw(w)
    ELSE [w EXCEPT !.state = "connecting"]

\* an ICE handler that does not look for 'ended'
_onIceConnectionStateChanged_Unguarded(w, iceConnectionState) ==
    IF iceConnectionState \in {"completed", "connected"}
    THEN [w EXCEPT !.state = "connected", !.didConnect = TRUE]
    ELSE IF iceConnectionState = "failed"
         THEN hangup(w, "ice_failed", FALSE)
    ELSE w

_onIceConnectionStateChanged(w, iceConnectionState) ==
    IF w.state = "ended" THEN w
    ELSE IF iceConnectionState \in {"completed", "connected"}
         THEN [w EXCEPT !.state = "connected", !.didConnect = TRUE]
    ELSE IF iceConnectionState = "failed"
         THEN hangup(w, "ice_failed", FALSE)
    ELSE w

\* hasVideo: the added stream has a video track
_onAddStream(w, hasVideo) ==
    LET w1 == [w EXCEPT !.remoteAVStream = TRUE]
        w2 == IF w1.direction = "inbound"
              THEN [w1 EXCEPT !.type = IF hasVideo THEN "video" ELSE "voice"]
              ELSE w1
    IN  _tryPlayRemoteStream(w2)

(***************************************************************************)
(* The answer path.  Rendering to the local <video> element is outside the *)
(* model.                                                                   *)
(***************************************************************************)
\* stream = 0 is an undefined argument: stream.getAudioTracks() throws
_gotUserMediaForAnswer(w, stream, strict) ==
    IF w.state = "ended" THEN w
    ELSE LET w1 == [w EXCEPT !.localAVStream = stream]
         IN  IF stream = 0 \/ pcRefuses(w1, strict)
             THEN Throw(w1)
             ELSE [w1 EXCEPT !.createAnswerPending = @ + 1,
                             !.state = "create_answer"]

\* the success callback handed to createAnswer
answerCreated(w, strict) ==
    IF pcRefuses(w, strict)
    THEN Throw(w)
    ELSE [w EXCEPT !.setLocalAnswerPending = @ + 1]

\* the success callback handed to setLocalDescription(answer)
localAnswerSet(w) ==
    [sendEvent(w, "m.call.answer", "") EXCEPT !.state = "connecting"]

\* getUserMedia given undefined constraints (this.type is unset) is refused
\* on the spot by a strict stack
answer(w, strict) ==
    IF w.localAVStream = 0 /\ ~w.waitForLocalAVStream
    THEN IF strict /\ w.type = Undefined
         THEN Throw(w)
         ELSE [getUserMediaForAnswer(w) EXCEPT !.state = "wait_local_media"]
    ELSE IF w.localAVStream # 0
         THEN _gotUserMediaForAnswer(w, w.localAVStream, strict)
         ELSE [w EXCEPT !.state = "wait_local_media"]

(***************************************************************************)
(* The offer path.  The operators that reach into the replacing call take  *)
(* both calls and yield the pair <<this call, the other call>>.            *)
(***************************************************************************)
_gotUserMediaForInvite(w, n, stream, strict) ==
    IF w.successor
    THEN LET n1 == _gotUserMediaForAnswer(n, stream, strict)
         IN  <<IF n1.exc THEN Throw(w) ELSE w, n1>>
    ELSE IF w.state = "ended"
    THEN <<w, n>>
    ELSE <<[_createPeerConnection([w EXCEPT !.localAVStream = stream]) EXCEPT
                !.createOfferPending = @ + 1,
                !.state = "create_offer"], n>>

_gotLocalOffer(w, strict) ==
    IF w.state = "ended" THEN w
    ELSE IF pcRefuses(w, strict) THEN Throw(w)
    ELSE [w EXCEPT !.setLocalOfferPending = @ + 1]

\* the success callback handed to setLocalDescription(offer)
localOfferSet(w) ==
    [sendEvent(w, "m.call.invite", "") EXCEPT
        !.inviteTimers = @ + 1,
        !.state = "invite_sent"]

_getLocalOfferFailed(w) == emit_error(w, "local_offer_failed")

_getUserMediaFailed(w) ==
    LET w1 == emit_error(w, "no_user_media")
    IN  IF w1.exc THEN w1 ELSE hangup(w1, Undefined, FALSE)

\* answer() names self.getUserMediaFailed, which no MatrixCall has: the
\* failure callback it builds throws a TypeError when the stack invokes it
getUserMediaFailed_undefined(w) == Throw(w)

(***************************************************************************)
(* Replacement.  this.hangup(true) passes true as the reason and leaves    *)
(* suppressEvent out.                                                       *)
(***************************************************************************)
\* a _replacedBy that keeps its reference to the stream it hands over
_replacedBy_StreamKept(w, n, strict) ==
    LET handed == w.state \in {"create_offer", "invite_sent"}
        n1 == IF w.state = "wait_local_media"
              THEN [n EXCEPT !.waitForLocalAVStream = TRUE]
              ELSE IF handed
                   THEN _gotUserMediaForAnswer(n, w.localAVStream, strict)
                   ELSE n
    IN  IF n1.exc
        THEN <<Throw(w), n1>>
        ELSE LET n2 == [n1 EXCEPT !.remoteVideoElement = w.remoteVideoElement]
                 w2 == emit_replaced([w EXCEPT !.successor = TRUE])
             IN  <<hangup(w2, "true", FALSE), n2>>

_replacedBy(w, n, strict) ==
    LET handed == w.state \in {"create_offer", "invite_sent"}
        n1 == IF w.state = "wait_local_media"
              THEN [n EXCEPT !.waitForLocalAVStream = TRUE]
              ELSE IF handed
                   THEN _gotUserMediaForAnswer(n, w.localAVStream, strict)
                   ELSE n
    IN  IF n1.exc
        THEN <<Throw(w), n1>>
        ELSE LET w1 == IF handed THEN [w EXCEPT !.localAVStream = 0] ELSE w
                 n2 == [n1 EXCEPT !.remoteVideoElement = w1.remoteVideoElement]
                 w2 == emit_replaced([w1 EXCEPT !.successor = TRUE])
             IN  <<hangup(w2, "true", FALSE), n2>>

(***************************************************************************)
(* Actions.  A handler runs to completion; an exception it throws ends it  *)
(* where it stands and what it wrote before stays written.  A step that    *)
(* would take a counter past its bound is left out of the model.           *)
(***************************************************************************)
LocalReasons == {"user_hangup"}
RemoteReasons == {Undefined}

Settle(w) == [w EXCEPT !.exc = FALSE]

WithinBounds(w) ==
    /\ w.gumRequests <= MaxGum
    /\ w.pcCreated <= MaxPc
    /\ w.hangupEmits <= MaxEmits
    /\ w.pcCloseCalls <= MaxClose
    /\ w.playTimers <= MaxPlay
    /\ w.createOfferPending <= MaxPending
    /\ w.setLocalOfferPending <= MaxPending
    /\ w.createAnswerPending <= MaxPending
    /\ w.setLocalAnswerPending <= MaxPending
    /\ w.nextCand <= MaxCands + 1

\* a callback of a port or a timer ran on the call
Becomes(w) ==
    /\ WithinBounds(w)
    /\ call' = Settle(w)
    /\ newCall' = newCall
    /\ ops' = ops

\* ... and reached into the replacing call
BecomePair(p) ==
    /\ WithinBounds(p[1])
    /\ WithinBounds(p[2])
    /\ call' = Settle(p[1])
    /\ newCall' = Settle(p[2])
    /\ ops' = ops

\* the application or MatrixClient invoked a method, or the media stack
\* raised an event nothing had requested
Invoked(p) ==
    /\ ops < MaxOps
    /\ WithinBounds(p[1])
    /\ WithinBounds(p[2])
    /\ call' = Settle(p[1])
    /\ newCall' = Settle(p[2])
    /\ ops' = ops + 1

\* the application
OnError == Becomes(on_error(call))

RemoveErrorListener == Becomes(removeListener_error(call))

PlaceVoiceCall == Invoked(<<placeVoiceCall(call), newCall>>)

PlaceVideoCall == \E el \in BOOLEAN : Invoked(<<placeVideoCall(call, el), newCall>>)

SetRemoteVideoElement == \E el \in BOOLEAN : Invoked(<<setRemoteVideoElement(call, el), newCall>>)

Answer == \E strict \in BOOLEAN : Invoked(<<answer(call, strict), newCall>>)

Hangup ==
    \E reason \in LocalReasons, suppressEvent \in BOOLEAN :
        Invoked(<<hangup(call, reason, suppressEvent), newCall>>)

\* MatrixClient, routing what the room delivers
InitWithInvite ==
    \E offersVideo \in BOOLEAN, aged \in BOOLEAN :
        Invoked(<<_initWithInvite(call, offersVideo, aged), newCall>>)

InitWithHangup == Invoked(<<_initWithHangup(call), newCall>>)

ReceivedAnswer == \E strict \in BOOLEAN : Invoked(<<_receivedAnswer(call, strict), newCall>>)

OnHangupReceived == \E reason \in RemoteReasons : Invoked(<<_onHangupReceived(call, reason), newCall>>)

OnAnsweredElsewhere == Invoked(<<_onAnsweredElsewhere(call), newCall>>)

ReplacedBy == \E strict \in BOOLEAN : Invoked(_replacedBy(call, newCall, strict))

\* the media stack answering getUserMedia
GotUserMediaForInvite ==
    /\ call.gumForInvite > 0
    /\ \E strict \in BOOLEAN :
          BecomePair(_gotUserMediaForInvite(
              [call EXCEPT !.gumForInvite = @ - 1, !.streamsDelivered = @ + 1],
              newCall, call.streamsDelivered + 1, strict))

GetUserMediaFailed ==
    /\ call.gumForInvite > 0
    /\ Becomes(_getUserMediaFailed([call EXCEPT !.gumForInvite = @ - 1]))

GotUserMediaForAnswer ==
    /\ call.gumForAnswer > 0
    /\ \E strict \in BOOLEAN :
          Becomes(_gotUserMediaForAnswer(
              [call EXCEPT !.gumForAnswer = @ - 1, !.streamsDelivered = @ + 1],
              call.streamsDelivered + 1, strict))

GetUserMediaForAnswerFailed ==
    /\ call.gumForAnswer > 0
    /\ Becomes(getUserMediaFailed_undefined([call EXCEPT !.gumForAnswer = @ - 1]))

\* the peer connection answering createOffer, createAnswer, setLocalDescription
GotLocalOffer ==
    /\ call.createOfferPending > 0
    /\ \E strict \in BOOLEAN :
          Becomes(_gotLocalOffer([call EXCEPT !.createOfferPending = @ - 1], strict))

GetLocalOfferFailed ==
    /\ call.createOfferPending > 0
    /\ Becomes(_getLocalOfferFailed([call EXCEPT !.createOfferPending = @ - 1]))

LocalOfferSet ==
    /\ call.setLocalOfferPending > 0
    /\ Becomes(localOfferSet([call EXCEPT !.setLocalOfferPending = @ - 1]))

\* the failure callback only logs
LocalOfferSetFailed ==
    /\ call.setLocalOfferPending > 0
    /\ Becomes([call EXCEPT !.setLocalOfferPending = @ - 1])

AnswerCreated ==
    /\ call.createAnswerPending > 0
    /\ \E strict \in BOOLEAN :
          Becomes(answerCreated([call EXCEPT !.createAnswerPending = @ - 1], strict))

\* createAnswer is given no failure callback
CreateAnswerFailed ==
    /\ call.createAnswerPending > 0
    /\ Becomes([call EXCEPT !.createAnswerPending = @ - 1])

LocalAnswerSet ==
    /\ call.setLocalAnswerPending > 0
    /\ Becomes(localAnswerSet([call EXCEPT !.setLocalAnswerPending = @ - 1]))

\* the failure callback only logs
LocalAnswerSetFailed ==
    /\ call.setLocalAnswerPending > 0
    /\ Becomes([call EXCEPT !.setLocalAnswerPending = @ - 1])

\* the peer connection's and the remote stream's events
OnIceConnectionStateChanged ==
    /\ call.peerConn
    /\ \E ice \in IceStates : Invoked(<<_onIceConnectionStateChanged(call, ice), newCall>>)

OnAddStream ==
    /\ call.peerConn
    /\ \E hasVideo \in BOOLEAN : Invoked(<<_onAddStream(call, hasVideo), newCall>>)

OnRemoteStreamStarted ==
    /\ call.remoteAVStream
    /\ Invoked(<<_onRemoteStreamStarted(call), newCall>>)

OnRemoteStreamTrackStarted ==
    /\ call.remoteAVStream
    /\ Invoked(<<_onRemoteStreamTrackStarted(call), newCall>>)

OnRemoteStreamEnded ==
    /\ call.remoteAVStream
    /\ Invoked(<<_onRemoteStreamEnded(call), newCall>>)

\* timers
RingTimerFired ==
    /\ call.ringTimers > 0
    /\ Becomes(ringTimeout([call EXCEPT !.ringTimers = @ - 1]))

InviteTimerFired ==
    /\ call.inviteTimers > 0
    /\ Becomes(inviteTimeout([call EXCEPT !.inviteTimers = @ - 1]))

PlayTimerFired ==
    /\ call.playTimers > 0
    /\ \E isOpenWebRTC \in BOOLEAN :
          Becomes(playTimeout([call EXCEPT !.playTimers = @ - 1], isOpenWebRTC))

\* the candidate sender
\* a connection finds candidates until it is closed
GotLocalIceCandidate ==
    /\ call.peerConn /\ call.signalingState # "closed"
    /\ Becomes(_gotLocalIceCandidate(call))

FlushTimerFired ==
    \E delayMs \in BagToSet(call.flushTimers) : Becomes(flushTimerFired(call, delayMs))

PublishSucceeded ==
    \E i \in 1..Len(call.inFlight) : Becomes(publishSucceeded(call, i))

PublishFailed ==
    \E i \in 1..Len(call.inFlight) : Becomes(publishFailed(call, i))

(***************************************************************************)
(* The life of a call: every handler but the candidate sender's.           *)
(***************************************************************************)
\* the call that may replace this one is the call MatrixClient makes for an
\* invite that glares with it
Init ==
    /\ call = MatrixCall
    /\ \E offersVideo \in BOOLEAN : newCall = _initWithInvite(MatrixCall, offersVideo, FALSE)
    /\ ops = 0

Next ==
    \/ OnError
    \/ RemoveErrorListener
    \/ PlaceVoiceCall
    \/ PlaceVideoCall
    \/ SetRemoteVideoElement
    \/ Answer
    \/ Hangup
    \/ InitWithInvite
    \/ InitWithHangup
    \/ ReceivedAnswer
    \/ OnHangupReceived
    \/ OnAnsweredElsewhere
    \/ ReplacedBy
    \/ GotUserMediaForInvite
    \/ GetUserMediaFailed
    \/ GotUserMediaForAnswer
    \/ GetUserMediaForAnswerFailed
    \/ GotLocalOffer
    \/ GetLocalOfferFailed
    \/ LocalOfferSet
    \/ LocalOfferSetFailed
    \/ AnswerCreated
    \/ CreateAnswerFailed
    \/ LocalAnswerSet
    \/ LocalAnswerSetFailed
    \/ OnIceConnectionStateChanged
    \/ OnAddStream
    \/ OnRemoteStreamStarted
    \/ OnRemoteStreamTrackStarted
    \/ OnRemoteStreamEnded
    \/ RingTimerFired
    \/ InviteTimerFired
    \/ PlayTimerFired

Spec == Init /\ [][Next]_vars

(***************************************************************************)
(* Glare: the call is replaced by the call MatrixClient built for the      *)
(* other side's invite, and the application answers that call.             *)
(***************************************************************************)
NewCallAnswer == \E strict \in BOOLEAN : Invoked(<<call, answer(newCall, strict)>>)

GlareNext ==
    \/ OnError
    \/ PlaceVoiceCall
    \/ PlaceVideoCall
    \/ ReplacedBy
    \/ NewCallAnswer
    \/ Hangup
    \/ GotUserMediaForInvite
    \/ GetUserMediaFailed
    \/ GotLocalOffer
    \/ LocalOfferSet

GlareSpec == Init /\ [][GlareNext]_vars

(***************************************************************************)
(* Construction: the application constructs a call from its options.       *)
(***************************************************************************)
ConstructorOpts ==
    {[hasTurnServers |-> FALSE, turnServers |-> <<>>]}
    \cup {[hasTurnServers |-> TRUE, turnServers |-> l] :
             l \in UNION {[1..n -> ServerConfigs] : n \in 0..MaxServers}}

Construct ==
    /\ ops = 0
    /\ \E opts \in ConstructorOpts : Invoked(<<newMatrixCall(call, opts), newCall>>)

ConstructInit ==
    /\ call = MatrixCall
    /\ newCall = MatrixCall
    /\ ops = 0

ConstructSpec == ConstructInit /\ [][Construct]_vars

(***************************************************************************)
(* The candidate sender of a call that has placed a voice call and has     *)
(* asked its peer connection to set the offer, which is when the           *)
(* connection starts to find candidates.  The sender reads no other field  *)
(* of the call.                                                             *)
(***************************************************************************)
PumpStart ==
    LET w1 == placeVoiceCall(on_error(MatrixCall))
        w2 == _gotUserMediaForInvite(
                  [w1 EXCEPT !.gumForInvite = @ - 1, !.streamsDelivered = @ + 1],
                  MatrixCall, 1, TRUE)[1]
    IN  _gotLocalOffer([w2 EXCEPT !.createOfferPending = @ - 1], TRUE)

PumpInit ==
    /\ call = PumpStart
    /\ newCall = MatrixCall
    /\ ops = 0

PumpNext ==
    \/ GotLocalIceCandidate
    \/ FlushTimerFired
    \/ PublishSucceeded
    \/ PublishFailed

PumpSpec == PumpInit /\ [][PumpNext]_vars

\* setTimeout callbacks run and the promise of client.sendEvent settles
PumpLiveSpec ==
    /\ PumpInit
    /\ [][PumpNext]_vars
    /\ WF_vars(FlushTimerFired)
    /\ WF_vars(PublishSucceeded \/ PublishFailed)

(***************************************************************************)
(* The candidate sender of a call that is hung up, by either side, while   *)
(* the sender is at work: the call of PumpStart, whose offer the peer      *)
(* connection is still setting.                                             *)
(***************************************************************************)
EndingPumpNext ==
    \/ PumpNext
    \/ LocalOfferSet
    \/ InviteTimerFired
    \/ Hangup
    \/ OnHangupReceived

EndingPumpSpec == PumpInit /\ [][EndingPumpNext]_vars

(***************************************************************************)
(* The candidate sender, observed.                                          *)
(***************************************************************************)
Enqueued == 1..(call.nextCand - 1)

InSeq(c, q) == \E k \in 1..Len(q) : q[k] = c

Occurrences(c, q) == Cardinality({k \in 1..Len(q) : q[k] = c})

RECURSIVE OccurrencesIn(_, _)
OccurrencesIn(c, batches) ==
    IF batches = <<>> THEN 0
    ELSE Occurrences(c, Head(batches)) + OccurrencesIn(c, Tail(batches))

Ascending(q) == \A j, k \in 1..Len(q) : j < k => q[j] < q[k]

Delivered(c) == \E b \in 1..Len(call.published) : InSeq(c, call.published[b])

\* nothing is pending that would run the sender again
Quiescent == Len(call.inFlight) = 0 /\ call.flushTimers = EmptyBag

\* consecutive failures after which a sender that publishes one batch at a
\* time gives up: its k-th failure finds candidateSendTries = 2k - 1
GiveUpFailures == (MaxSendTries + 1) \div 2 + 1

\* C4: at most one m.call.candidates publish is unsettled at any moment
C4_OnePublishInFlight == Len(call.inFlight) <= 1

\* C5: every enqueued candidate is in exactly one of the queue, an unsettled
\* batch and a published batch, once; a candidate not yet emitted is in none
C5_Conservation ==
    \A c \in 1..MaxCands :
        Occurrences(c, call.candidateSendQueue)
            + OccurrencesIn(c, call.inFlight)
            + OccurrencesIn(c, call.published)
        = IF c \in Enqueued THEN 1 ELSE 0

\* C5: the sender gave up on a batch after an earlier batch was published,
\* and holds the failed candidates
C5_Witness ==
    /\ call.exhausted
    /\ Len(call.published) >= 1
    /\ Len(call.candidateSendQueue) >= 1

\* C6: the queue and every batch list their candidates in emission order
C6_EmissionOrder ==
    /\ Ascending(call.candidateSendQueue)
    /\ \A b \in 1..Len(call.inFlight) : Ascending(call.inFlight[b])
    /\ \A b \in 1..Len(call.published) : Ascending(call.published[b])

\* C7: when timers fire and publishes settle, every enqueued candidate is in
\* the end published, or the sender gave up while holding it; candidates are
\* left behind only after GiveUpFailures publishes in a row have failed, with
\* the count of tries back at 0; the next candidate then arms a flush timer,
\* and a flush that is armed takes every candidate that is queued
C7_AtLeastOnce ==
    /\ \A c \in 1..MaxCands :
          (c \in Enqueued) ~>
              (Delivered(c) \/ (call.exhausted /\ InSeq(c, call.candidateSendQueue)))
    /\ [](Quiescent /\ Len(call.candidateSendQueue) > 0 =>
              /\ call.exhausted
              /\ call.failStreak >= GiveUpFailures
              /\ call.candidateSendTries = 0)
    /\ [][Quiescent /\ Len(call.candidateSendQueue) > 0 /\ call'.nextCand > call.nextCand =>
              /\ call'.flushTimers # EmptyBag
              /\ call'.candidateSendQueue = Append(call.candidateSendQueue, call.nextCand)]_vars
    /\ \A c \in 1..MaxCands :
          (InSeq(c, call.candidateSendQueue) /\ call.flushTimers # EmptyBag) ~>
              ~InSeq(c, call.candidateSendQueue)

\* C7: a candidate was published after the sender had given up on it
C7_Witness ==
    /\ call.gaveUpAt > 0
    /\ ~call.exhausted
    /\ \A c \in 1..MaxCands : Delivered(c)

\* C8: a run of failures that starts at candidateSendTries = 0 gives up at
\* its 5th failure, not earlier and not later
C8_GivesUpAtFifthFailure ==
    call.runClean => call.gaveUpAt \in {0, 5} /\ call.runFails < 5

\* C9: in a run of failures that starts at candidateSendTries = 0, the delay
\* of the retry scheduled after the k-th failure is 500 * 2^(k-1) ms
C9_BackoffSchedule ==
    call.runClean =>
        \A k \in 1..Len(call.runDelays) : call.runDelays[k] = 500 * (2 ^ (k - 1))

(***************************************************************************)
(* The call, observed.                                                      *)
(***************************************************************************)

\* C1: once state is 'ended', no step changes it
C1_EndedAbsorbing ==
    [][call.state = "ended" => call'.state = "ended"]_vars

\* C2: once a termination has set hangup_party, no step changes hangup_party
\* or hangup_reason
C2_HangupFieldsSetOnce ==
    [][call.hangupParty # Undefined =>
          /\ call'.hangupParty = call.hangupParty
          /\ call'.hangupReason = call.hangupReason]_vars

\* C3: the 'hangup' event is emitted at most once in the life of a call
C3_SingleHangupEvent == call.hangupEmits <= 1

\* C10: placeVoiceCall and placeVideoCall, invoked while no 'error' listener
\* is registered, throw and leave the call as it was: state, direction, type,
\* the capture requests and the registration with the client do not change
C10_PlaceNeedsErrorListener ==
    [][(PlaceVoiceCall \/ PlaceVideoCall) /\ ~call.errorListener =>
          /\ call' = [call EXCEPT !.placeRefused = TRUE]
          /\ newCall' = newCall]_vars

\* C10: a place was refused and the call is still as constructed
C10_Witness ==
    /\ call.placeRefused
    /\ call.state = "fledgling"
    /\ call.direction = Undefined /\ call.type = Undefined
    /\ call.gumRequests = 0 /\ ~call.callListed

\* C11: whenever the capture requested by placeVoiceCall, placeVideoCall or
\* answer fails, the call emits error no_user_media and terminates: state
\* 'ended', hangupParty 'local', m.call.hangup handed to the client
C11_CaptureDenialHangsUp ==
    [][GetUserMediaFailed \/ GetUserMediaForAnswerFailed =>
          /\ "no_user_media" \in call'.errorsEmitted
          /\ call'.state = "ended"
          /\ call'.hangupParty = "local"
          /\ \E e \in call'.sentEvents : e[1] = "m.call.hangup"]_vars

\* C12: _replacedBy(newCall) emits 'replaced' and ends the call without
\* emitting the call's hangup event, whatever state the call is in
C12_ReplacedSilently ==
    [][ReplacedBy =>
          /\ call'.replacedEmits = call.replacedEmits + 1
          /\ call'.state = "ended"
          /\ call'.hangupEmits = call.hangupEmits]_vars

\* C13: the invite timer, expiring while the call is in 'invite_sent', hangs
\* the call up locally with reason invite_timeout: m.call.hangup with that
\* reason goes to the client and the peer connection is closed; expiring in
\* any other state it changes nothing
C13_InviteTimeout ==
    [][InviteTimerFired =>
          IF call.state = "invite_sent"
          THEN /\ call'.state = "ended"
               /\ call'.hangupParty = "local"
               /\ call'.hangupReason = "invite_timeout"
               /\ <<"m.call.hangup", "invite_timeout">> \in call'.sentEvents
               /\ call.peerConn /\ call'.signalingState = "closed"
               /\ call'.pcCloseCalls = call.pcCloseCalls + 1
          ELSE call' = [call EXCEPT !.inviteTimers = @ - 1]]_vars

\* C13: an invite timer has expired on a call in 'invite_sent'
C13_Witness ==
    /\ call.state = "ended"
    /\ call.hangupReason = "invite_timeout"
    /\ <<"m.call.hangup", "invite_timeout">> \in call.sentEvents

\* C14: an inbound invite that stays in 'ringing' expires, whatever its age:
\* the call leaves 'ringing' by the expiry callback, so while it is ringing
\* the callback is pending
C14_RingingExpires == call.state = "ringing" => call.ringTimers > 0

\* C15: getUserMedia is requested at most once for a call
C15_MediaAcquiredOnce == call.gumRequests <= 1

\* C16: a call constructs at most one peer connection and requests close()
\* on it at most once
C16_PeerConnectionOnce == call.pcCreated <= 1 /\ call.pcCloseCalls <= 1

\* C17: a m.call.candidates publish is started only while the state of the
\* call is neither 'fledgling' nor 'ended'
C17_NoPublishOnceEnded == call.publishStates \cap {"fledgling", "ended"} = {}

\* C18: the setLocalDescription callback of an offer or an answer, arriving
\* after the call has ended, does nothing: it hands no m.call.invite and no
\* m.call.answer to the client, arms no invite timer and leaves the state
C18_EndedCancelsNegotiation ==
    [][(LocalOfferSet \/ LocalAnswerSet) /\ call.state = "ended" =>
          /\ call'.sentEvents = call.sentEvents
          /\ call'.inviteTimers = call.inviteTimers
          /\ call'.state = "ended"]_vars

\* C19: for every opts.turnServers (left out, empty, or not empty) the
\* turnServers of the constructed call has at least one entry
C19_TurnServersNeverEmpty == Len(call.turnServers) >= 1

\* C20: every change of state follows an edge of the graph: fledgling to
\* wait_local_media or ringing, ringing to wait_local_media,
\* wait_local_media to create_offer or create_answer, create_offer to
\* invite_sent, create_answer to connecting, invite_sent to connecting,
\* connecting to connected, and any state but ended to ended
C20_StateGraph ==
    [][LET edges == {<<"fledgling", "wait_local_media">>, <<"fledgling", "ringing">>,
                     <<"ringing", "wait_local_media">>,
                     <<"wait_local_media", "create_offer">>,
                     <<"wait_local_media", "create_answer">>,
                     <<"create_offer", "invite_sent">>,
                     <<"create_answer", "connecting">>,
                     <<"invite_sent", "connecting">>,
                     <<"connecting", "connected">>}
                    \cup {<<s, "ended">> : s \in States \ {"ended"}}
       IN  call'.state # call.state => <<call.state, call'.state>> \in edges]_vars

\* C21: _replacedBy(newCall) on a call that is in 'create_offer' or
\* 'invite_sent' and holds its captured stream gives the stream to newCall,
\* which enters 'create_answer'; the replaced call drops its reference and
\* ends without requesting stop on any stream
C21_StreamHandedOver ==
    [][ReplacedBy /\ call.state \in {"create_offer", "invite_sent"}
                  /\ call.localAVStream # 0 =>
          /\ newCall'.localAVStream = call.localAVStream
          /\ newCall'.state = "create_answer"
          /\ call'.localAVStream = 0
          /\ call'.stopRequested = call.stopRequested
          /\ call'.state = "ended"]_vars

\* C21: an outbound call that had created its peer connection was replaced,
\* and the replacing call holds the stream and creates its answer
C21_Witness ==
    /\ call.successor /\ call.state = "ended"
    /\ call.direction = "outbound" /\ call.pcCreated >= 1
    /\ call.localAVStream = 0 /\ call.stopRequested = {}
    /\ newCall.localAVStream # 0 /\ newCall.state = "create_answer"

\* C22: _replacedBy(newCall) on a call in 'wait_local_media' tells newCall to
\* wait; newCall.answer() then requests no capture and enters
\* 'wait_local_media'; when the capture of the replaced call resolves,
\* newCall leaves 'wait_local_media', and on success it holds the stream and
\* creates its answer while the replaced call creates no peer connection and
\* no offer
C22_DeferredHandoff ==
    [][/\ ReplacedBy /\ call.state = "wait_local_media" =>
              newCall'.waitForLocalAVStream
       /\ NewCallAnswer /\ newCall.waitForLocalAVStream /\ newCall.localAVStream = 0 =>
              /\ newCall'.gumRequests = newCall.gumRequests
              /\ newCall'.state = "wait_local_media"
       /\ (GotUserMediaForInvite \/ GetUserMediaFailed)
              /\ call.successor /\ newCall.waitForLocalAVStream
              /\ newCall.state = "wait_local_media" =>
              newCall'.state # "wait_local_media"
       /\ GotUserMediaForInvite /\ call.successor /\ newCall.waitForLocalAVStream
              /\ newCall.state = "wait_local_media" =>
              /\ newCall'.state = "create_answer"
              /\ newCall'.localAVStream # 0
              /\ call'.pcCreated = call.pcCreated
              /\ call'.createOfferPending = call.createOfferPending]_vars

\* C23: didConnect is false in a new call; the only step that changes it is
\* an ICE change to 'connected' or 'completed' delivered to a call that is
\* not ended, which sets it; an ICE change delivered to an ended call
\* changes neither state nor didConnect
C23_DidConnect ==
    /\ ~call.didConnect
    /\ [][/\ call'.didConnect # call.didConnect =>
                 /\ call'.didConnect
                 /\ call.state # "ended"
                 /\ \E ice \in {"connected", "completed"} :
                       Invoked(<<_onIceConnectionStateChanged(call, ice), newCall>>)
          /\ OnIceConnectionStateChanged /\ call.state = "ended" =>
                 /\ call'.state = "ended"
                 /\ call'.didConnect = call.didConnect]_vars

\* C23: a call that connected has ended
C23_Witness == call.didConnect /\ call.state = "ended"

\* C24: while a call is ended and has no successor, stop has been requested
\* on every local stream the capture delivered for it
C24_StreamsStopped ==
    call.state = "ended" /\ ~call.successor =>
        \A stream \in 1..call.streamsDelivered : stream \in call.stopRequested

\* C25: while candidateSendTries is not 0, a candidates publish is unsettled
\* or a flush timer is pending
C25_NeverWedged ==
    call.candidateSendTries # 0 =>
        Len(call.inFlight) > 0 \/ call.flushTimers # EmptyBag

\* C25: a publish has failed and only its retry timer keeps the sender going
C25_Witness ==
    /\ call.candidateSendTries # 0
    /\ Len(call.inFlight) = 0
    /\ call.failStreak > 0
    /\ BagCardinality(call.flushTimers) = 1

====
